---- MODULE Spec2Model ----
(***************************************************************************)
(* Model of the fuzzy file search server (src/src/main.rs): the index map, *)
(* the per-root snapshots, the recent-paths configuration and the request  *)
(* handlers create_index, search, change_path, purge_indices,              *)
(* get_recent_paths and download_file.                                     *)
(*                                                                         *)
(* The specifications share the variables:                                 *)
(*   Spec       the server: NumProcs concurrent requests over the          *)
(*              handlers, with at most MaxFaults failing I/O operations    *)
(*   SpecLive   Spec with weak fairness of the steps of every handler      *)
(*   SpecRS     the server under rebuilds and switches alone               *)
(*   SpecReg    Config::add_path applied to a registry that starts empty   *)
(*   SpecCfg    the registry, its file and restarts of the program         *)
(*   SpecSearch search applied to an index and a query of bounded length   *)
(*   SpecGuard  download_file applied to every request path of a bounded   *)
(*              length                                                     *)
(***************************************************************************)
EXTENDS Integers, Sequences, FiniteSets, TLC

\* ---------------------------------------------------------------- bounds
NumProcs == 2      \* concurrent requests in flight
NumRoots == 2      \* root paths a request can name; root 1 is the start directory
NumFiles == 2      \* regular files below the start directory
MaxFaults == 1     \* I/O operations that fail in one run of the server
NumRegPaths == 6   \* SpecReg: paths given to add_path
MaxAdds == 7       \* SpecReg: calls of add_path
MaxCount == 1      \* SpecReg: largest total_files given to add_path
MaxReqLen == 5     \* SpecGuard: characters of a request path

Procs == 1..NumProcs
Roots == 1..NumRoots

\* The directory the process was started in (main: std::env::current_dir()).
StartRoot == 1

\* ------------------------------------------------------------ file system
\* Characters of relative paths; Lower is char::to_lowercase on them.
Lower(c) == CASE c = "A" -> "a" [] c = "B" -> "b" [] OTHER -> c

IsUpper(c) == c \in {"A", "B"}

FileNames == << <<"a", "b">>, <<"B">>, <<"b", "a">>, <<"A", "a">> >>

\* The regular files WalkDir yields below a root, in walk order, as paths
\* relative to that root.
TreeOf(r) == IF r = StartRoot THEN SubSeq(FileNames, 1, NumFiles)
             ELSE << <<"b">> >>

\* What entry.metadata() can answer for a file during a walk.
MetaOutcomes == {"ok", "err"}

\* struct IndexEntry (name, size and last_modified are functions of the file
\* and are not told apart here).
IndexEntry(relpath) == [path |-> relpath]

\* ---------------------------------------------------------------- state
VARIABLES
  root_path,   \* AppState.root_path: the root search, create_index, download use
  indices,     \* AppState.indices: HashMap root -> Vec<IndexEntry>
  readers,     \* requests holding the read half of the indices RwLock
  config,      \* AppState.config.recent_paths
  configFile,  \* config.json: [state, text]
  disk,        \* index_<hash>.json per root: [ok, entries]
  indexDir,    \* the indices cache directory exists
  now,         \* the wall clock, as the number of the last reading taken
  faults,      \* I/O operations that have failed so far
  pc,          \* per request: position in its handler
  path,        \* per request: ChangePathRequest.path / new_path
  q,           \* per request: SearchQuery.q
  buf,         \* per request: new_index / loaded_index / matches
  i,           \* per request: position of the walk or of the scan
  resp,        \* per request: the response being returned
  lastSwitch,  \* history: the root of the last change_path that returned, when
               \* no other request was in flight then and only searches have
               \* been made since
  hist,        \* history (SpecReg): the paths given to add_path, in order
  req,         \* SpecGuard: the request path of download_file, as characters
  dl           \* SpecGuard: the outcome of download_file

vars == <<root_path, indices, readers, config, configFile, disk, indexDir, now,
          faults,
          pc, path, q, buf, i, resp, lastSwitch, hist, req, dl>>

serverVars == <<root_path, indices, readers, configFile, disk, indexDir, faults,
                pc, path, q, buf, i, resp, lastSwitch>>

guardVars == <<req, dl>>

\* No root: the value of a root-valued field that is not set.
NoRoot == CHOOSE r \in 0..NumRoots : r \notin Roots

NoResp == [op |-> "none", total_files |-> 0, root_path |-> NoRoot,
           files |-> <<>>, msg |-> "", list |-> <<>>]

\* No download has been answered.
NoDl == [status |-> 0, body |-> "", read |-> <<>>]

\* ------------------------------------------------------------ map helpers
\* An insert that starts from a fresh map.
MapInsertFresh(m, k, v) == [x \in {k} |-> v]

\* HashMap::insert
MapInsert(m, k, v) == [x \in (DOMAIN m) \cup {k} |-> IF x = k THEN v ELSE m[x]]

EmptyMap == [x \in {} |-> <<>>]

\* indices.get(&key).unwrap_or(&empty_vec)
MapGet(m, k) == IF k \in DOMAIN m THEN m[k] ELSE <<>>

\* --------------------------------------------------------------- snapshots
\* A snapshot file that cannot be read or parsed: what is left of it is the
\* start of a list, its first entry.
Unreadable == [ok |-> FALSE, entries |-> <<IndexEntry(FileNames[1])>>]

Snapshot(entries) == [ok |-> TRUE, entries |-> entries]

\* IndexEntry::load_index(root).unwrap_or_else(|e| Vec::new()): the entries of
\* the snapshot, the empty list when the file is missing, and the empty list
\* again when it cannot be read or parsed.
\* A loader that returns whatever entries it finds in the file.
load_index_lenient(d, r) ==
  IF r \in DOMAIN d THEN d[r].entries ELSE <<>>

load_index(d, r) ==
  IF r \in DOMAIN d
    THEN IF d[r].ok THEN d[r].entries ELSE <<>>
    ELSE <<>>

\* What fs::write can do to a file: write it, fail before touching it, or
\* fail after truncating it.
SaveOutcomes == {"written", "failed", "truncated"}

\* A save that writes one file for all the roots.
save_index_shared(d, r, entries, out) ==
  IF out = "written"
    THEN [x \in (DOMAIN d) \cup {r} |-> Snapshot(entries)]
    ELSE d

\* IndexEntry::save_index
save_index(d, r, entries, out) ==
  CASE out = "written" -> MapInsert(d, r, Snapshot(entries))
    [] out = "truncated" -> MapInsert(d, r, Unreadable)
    [] OTHER -> d

\* A handler that answers with an error when the save has failed.
after_save_strict(out, status) ==
  IF out = "written" THEN status ELSE [status EXCEPT !.op = "error"]

\* The status create_index returns after save_index has returned out: the
\* error of a failed save is printed and dropped.
after_save(out, status) == status

\* A purge that removes the snapshot of the current root alone.
remove_active_only(d) == [r \in (DOMAIN d) \ {root_path} |-> d[r]]

\* fs::remove_dir_all(index_dir), when it succeeds: no snapshot is left.
remove_dir_all(d) == EmptyMap

\* ----------------------------------------------------------------- config
PathConfig(p, n, t) == [path |-> p, last_indexed |-> t, total_files |-> n]

\* A writer that puts the last entry first.
SerializeReversed(c) ==
  [k \in 1..Len(c) |->
     <<c[Len(c) - k + 1].path, c[Len(c) - k + 1].last_indexed,
       c[Len(c) - k + 1].total_files>>]

\* serde_json::to_string_pretty(&config): the entries in the order of
\* recent_paths, each one as the values of its fields in the order of the
\* struct.
Serialize(c) ==
  [k \in 1..Len(c) |-> <<c[k].path, c[k].last_indexed, c[k].total_files>>]

\* serde_json::from_str of a text that parses.
Deserialize(text) ==
  [k \in 1..Len(text) |->
     [path |-> text[k][1], last_indexed |-> text[k][2],
      total_files |-> text[k][3]]]

\* config.json: missing, valid with its text, unparsable (cut short), or
\* unreadable (read_to_string fails).
NoConfigFile == [state |-> "missing", text |-> <<>>]

\* Config::save: fs::write writes the file, fails before touching it, or
\* fails after truncating it.
Config_save(file, c, out) ==
  CASE out = "written" -> [state |-> "valid", text |-> Serialize(c)]
    [] out = "truncated" -> [state |-> "unparsable", text |-> <<>>]
    [] OTHER -> file

\* Config::load: Ok with the parsed registry; Ok with the empty registry for
\* a missing file and for a text that does not parse (unwrap_or); Err when
\* the file cannot be read.
Config_load(file) ==
  CASE file.state = "valid" -> [ok |-> TRUE, config |-> Deserialize(file.text)]
    [] file.state = "unreadable" -> [ok |-> FALSE, config |-> <<>>]
    [] OTHER -> [ok |-> TRUE, config |-> <<>>]

\* main: Config::load().unwrap_or_else(|_| Config { recent_paths: vec![] })
StartupConfig(file) ==
  IF Config_load(file).ok THEN Config_load(file).config ELSE <<>>

PathsOf(c) == {c[k].path : k \in 1..Len(c)}

\* The length recent_paths is cut back to.
MaxRecent == 5

\* add_path without the pop of the last entry.
add_path_no_pop(c, p, n, t) ==
  IF \E k \in 1..Len(c) : c[k].path = p
    THEN LET k == CHOOSE k \in 1..Len(c) :
                    c[k].path = p /\ \A j \in 1..(k-1) : c[j].path # p
         IN  [c EXCEPT ![k] = PathConfig(p, n, t)]
    ELSE <<PathConfig(p, n, t)>> \o c

\* add_path that drops the first entry instead of the last.
add_path_pop_front(c, p, n, t) ==
  IF \E k \in 1..Len(c) : c[k].path = p
    THEN LET k == CHOOSE k \in 1..Len(c) :
                    c[k].path = p /\ \A j \in 1..(k-1) : c[j].path # p
         IN  [c EXCEPT ![k] = PathConfig(p, n, t)]
    ELSE LET ins == <<PathConfig(p, n, t)>> \o c
         IN  IF Len(ins) > MaxRecent THEN Tail(ins) ELSE ins

\* Config::add_path: an entry with this path is updated where it stands;
\* otherwise a new entry goes to the front and, past MaxRecent entries, the
\* last one is popped.
add_path(c, p, n, t) ==
  IF \E k \in 1..Len(c) : c[k].path = p
    THEN LET k == CHOOSE k \in 1..Len(c) :
                    c[k].path = p /\ \A j \in 1..(k-1) : c[j].path # p
         IN  [c EXCEPT ![k] = PathConfig(p, n, t)]
    ELSE LET ins == <<PathConfig(p, n, t)>> \o c
         IN  IF Len(ins) > MaxRecent THEN SubSeq(ins, 1, Len(ins) - 1) ELSE ins

\* ------------------------------------------------------------------ search
\* SkimMatcherV2::default().fuzzy_match(choice, pattern): None when the
\* pattern is not a subsequence of the choice, Some(score) otherwise.  The
\* default matcher is smart-case: a pattern with an upper-case character is
\* matched case-sensitively, any other pattern case-insensitively.  An empty
\* pattern matches everything with score 0.
RECURSIVE IsSubseq(_, _, _)
IsSubseq(pat, s, cs) ==
  IF pat = <<>> THEN TRUE
  ELSE IF s = <<>> THEN FALSE
  ELSE IF (IF cs THEN pat[1] = s[1] ELSE Lower(pat[1]) = Lower(s[1]))
    THEN IsSubseq(Tail(pat), Tail(s), cs)
    ELSE IsSubseq(pat, Tail(s), cs)

CaseSensitive(pat) == \E k \in 1..Len(pat) : IsUpper(pat[k])

\* Score of a match: 16 for every matched character, less one for every
\* character of the choice left unmatched (the ordering the library's score
\* gives to matches of one pattern that differ in length only).
SkimScore(choice, pat) == 16 * Len(pat) - (Len(choice) - Len(pat))

\* A matcher that lets every choice through.
fuzzy_match_any(choice, pat) ==
  [matched |-> TRUE, score |-> IF pat = <<>> THEN 0 ELSE SkimScore(choice, pat)]

fuzzy_match(choice, pat) ==
  IF pat = <<>> THEN [matched |-> TRUE, score |-> 0]
  ELSE IF IsSubseq(pat, choice, CaseSensitive(pat))
    THEN [matched |-> TRUE, score |-> SkimScore(choice, pat)]
    ELSE [matched |-> FALSE, score |-> 0]

\* An insertion that puts a match in front of the earlier matches of the same
\* score.
RECURSIVE InsertDescFirst(_, _)
InsertDescFirst(sorted, m) ==
  IF sorted = <<>> THEN <<m>>
  ELSE IF sorted[Len(sorted)].score > m.score THEN Append(sorted, m)
  ELSE Append(InsertDescFirst(SubSeq(sorted, 1, Len(sorted) - 1), m),
              sorted[Len(sorted)])

\* No sort at all.
Unsorted(ms) == ms

\* matches.sort_by(|a, b| b.0.cmp(&a.0)): a stable sort, descending by score.
RECURSIVE InsertDesc(_, _)
InsertDesc(sorted, m) ==
  IF sorted = <<>> THEN <<m>>
  ELSE IF sorted[Len(sorted)].score >= m.score THEN Append(sorted, m)
  ELSE Append(InsertDesc(SubSeq(sorted, 1, Len(sorted) - 1), m),
              sorted[Len(sorted)])

RECURSIVE SortDesc(_)
SortDesc(ms) ==
  IF ms = <<>> THEN <<>>
  ELSE InsertDesc(SortDesc(SubSeq(ms, 1, Len(ms) - 1)), ms[Len(ms)])

\* matches.into_iter().map(|(_, entry)| entry).collect()
EntriesOf(ms) == [k \in 1..Len(ms) |-> ms[k].entry]

Queries == {<<>>, <<"b">>}

\* ------------------------------------------------------------ indices lock
\* state.indices.write().await: granted when no reader holds the lock.  The
\* writers' critical sections contain no await and are single steps.
LockIgnoresReaders == TRUE

\* A lock that a rebuild holds from the start of its walk.
CanWriteAfterWalks ==
  readers = {} /\ \A o \in Procs : pc[o] # "ci_walk"

CanWrite == readers = {}

\* A handler stands at write().await.  The lock of tokio is fair: a read()
\* that comes after a waiting write() is granted after it.
WriterWaiting == \E o \in Procs : pc[o] \in {"ci_store", "cp_insert"}

\* ------------------------------------------------------------------- Init
\* The snapshot an earlier run of the program left for root r: the files of
\* its tree.
OldSnapshot(r) ==
  Snapshot([k \in 1..Len(TreeOf(r)) |-> IndexEntry(TreeOf(r)[k])])

\* The snapshots found at startup: for any of the roots the one an earlier run
\* wrote, or an unreadable file in its place.
InitDisks ==
  UNION { {d \in [S -> {OldSnapshot(r) : r \in Roots} \cup {Unreadable}] :
             \A r \in S : d[r] \in {OldSnapshot(r), Unreadable}} : S \in SUBSET Roots }

Damaged(d) == Cardinality({r \in DOMAIN d : ~d[r].ok})

IdleLocals ==
  /\ pc = [p \in Procs |-> "idle"]
  /\ path = [p \in Procs |-> NoRoot]
  /\ q = [p \in Procs |-> <<>>]
  /\ buf = [p \in Procs |-> <<>>]
  /\ i = [p \in Procs |-> 0]
  /\ resp = [p \in Procs |-> NoResp]

\* main: the state the server starts serving with.  The index map holds the
\* start directory alone, with its snapshot when one can be loaded.  The start
\* directory is added to the registry (the call on line 807 names no file
\* count; the count of the loaded index is used, as change_path does).
Init ==
  /\ root_path = StartRoot
  /\ disk \in InitDisks
  /\ indexDir \in BOOLEAN
  /\ (DOMAIN disk # {}) => indexDir
  /\ indices = MapInsert(EmptyMap, StartRoot, load_index(disk, StartRoot))
  /\ readers = {}
  /\ faults = Damaged(disk)
  /\ faults <= MaxFaults
  /\ now = 0
  /\ config = add_path(<<>>, StartRoot, Len(load_index(disk, StartRoot)), 0)
  /\ configFile = Config_save(NoConfigFile, config, "written")
  /\ IdleLocals
  /\ lastSwitch = NoRoot
  /\ hist = <<>>
  /\ req = <<>>
  /\ dl = NoDl

\* ------------------------------------------------------------ create_index
CreateIndexStart(p) ==
  /\ pc[p] = "idle"
  /\ pc' = [pc EXCEPT ![p] = "ci_walk"]
  /\ buf' = [buf EXCEPT ![p] = <<>>]
  /\ i' = [i EXCEPT ![p] = 0]
  /\ lastSwitch' = NoRoot
  /\ UNCHANGED <<root_path, indices, readers, config, configFile, disk,
                 indexDir, now, faults, path, q, resp, hist, guardVars>>

\* One file of the walk: pushed when its metadata can be read, skipped
\* otherwise.
CreateIndexWalk(p) ==
  /\ pc[p] = "ci_walk"
  /\ LET tree == TreeOf(root_path) IN
     /\ i[p] < Len(tree)
     /\ \E meta \in MetaOutcomes :
          /\ meta # "ok" => faults < MaxFaults
          /\ faults' = IF meta = "ok" THEN faults ELSE faults + 1
          /\ buf' = [buf EXCEPT ![p] =
                       IF meta = "ok" THEN Append(@, IndexEntry(tree[i[p] + 1]))
                       ELSE @]
     /\ i' = [i EXCEPT ![p] = @ + 1]
     /\ pc' = [pc EXCEPT ![p] = IF i[p] + 1 = Len(tree) THEN "ci_store" ELSE @]
  /\ lastSwitch' = NoRoot
  /\ UNCHANGED <<root_path, indices, readers, config, configFile, disk,
                 indexDir, now, path, q, resp, hist, guardVars>>

\* The walk is over: the write lock is taken for the insert alone.
CreateIndexStore(p) ==
  /\ pc[p] = "ci_store"
  /\ CanWrite
  /\ indices' = MapInsert(indices, root_path, buf[p])
  /\ pc' = [pc EXCEPT ![p] = "ci_save"]
  /\ lastSwitch' = NoRoot
  /\ UNCHANGED <<root_path, readers, config, configFile, disk, indexDir, now, faults,
                 path, q, buf, i, resp, hist, guardVars>>

\* IndexEntry::save_index, which may fail, and the response.
CreateIndexSave(p) ==
  /\ pc[p] = "ci_save"
  /\ \E out \in SaveOutcomes :
       /\ out # "written" => faults < MaxFaults
       /\ faults' = IF out = "written" THEN faults ELSE faults + 1
       /\ disk' = save_index(disk, root_path, buf[p], out)
       /\ indexDir' = (indexDir \/ out # "failed")
       /\ resp' = [resp EXCEPT ![p] =
                     after_save(out,
                       [NoResp EXCEPT !.op = "create_index",
                                      !.total_files = Len(buf[p]),
                                      !.root_path = root_path])]
  /\ pc' = [pc EXCEPT ![p] = "done"]
  /\ lastSwitch' = NoRoot
  /\ UNCHANGED <<root_path, indices, readers, config, configFile, now,
                 path, q, buf, i, hist, guardVars>>

\* ------------------------------------------------------------------ search
\* The handler takes the read lock and keeps it until it returns.
SearchStart(p) ==
  /\ pc[p] = "idle"
  /\ ~WriterWaiting
  /\ \E query \in Queries : q' = [q EXCEPT ![p] = query]
  /\ readers' = readers \cup {p}
  /\ buf' = [buf EXCEPT ![p] = <<>>]
  /\ i' = [i EXCEPT ![p] = 0]
  /\ pc' = [pc EXCEPT ![p] = "s_scan"]
  /\ UNCHANGED <<root_path, indices, config, configFile, disk, indexDir, now, faults,
                 path, resp, lastSwitch, hist, guardVars>>

\* filter_map over the entries of the current root's index, one entry a step.
SearchScan(p) ==
  /\ pc[p] = "s_scan"
  /\ LET index == MapGet(indices, root_path) IN
     /\ i[p] < Len(index)
     /\ LET entry == index[i[p] + 1]
            m == fuzzy_match(entry.path, q[p])
        IN  buf' = [buf EXCEPT ![p] =
                      IF m.matched
                        THEN Append(@, [score |-> m.score, entry |-> entry])
                        ELSE @]
     /\ i' = [i EXCEPT ![p] = @ + 1]
  /\ UNCHANGED <<root_path, indices, readers, config, configFile, disk,
                 indexDir, now, faults, pc, path, q, resp, lastSwitch, hist, guardVars>>

\* The end of the iteration: sort, respond, drop the read lock.
SearchFinish(p) ==
  /\ pc[p] = "s_scan"
  /\ i[p] >= Len(MapGet(indices, root_path))
  /\ resp' = [resp EXCEPT ![p] =
                [NoResp EXCEPT !.op = "search",
                               !.files = EntriesOf(SortDesc(buf[p]))]]
  /\ readers' = readers \ {p}
  /\ pc' = [pc EXCEPT ![p] = "done"]
  /\ UNCHANGED <<root_path, indices, config, configFile, disk, indexDir, now, faults,
                 path, q, buf, i, lastSwitch, hist, guardVars>>

\* ------------------------------------------------------------- change_path
\* The assignment through Arc::make_mut(&mut Arc::clone(&state.root_path))
\* writes new_path into a fresh copy that is dropped at the end of the
\* statement: the clone makes the Arc shared, so make_mut copies the PathBuf
\* instead of writing through.  state.root_path keeps its value.  Then the
\* snapshot of new_path is loaded.
ChangePathStart(p) ==
  /\ pc[p] = "idle"
  /\ \E r \in Roots :
       /\ path' = [path EXCEPT ![p] = r]
       /\ buf' = [buf EXCEPT ![p] = load_index(disk, r)]
  /\ root_path' = root_path
  /\ pc' = [pc EXCEPT ![p] = "cp_insert"]
  /\ lastSwitch' = NoRoot
  /\ UNCHANGED <<indices, readers, config, configFile, disk, indexDir, now, faults,
                 q, i, resp, hist, guardVars>>

ChangePathInsert(p) ==
  /\ pc[p] = "cp_insert"
  /\ CanWrite
  /\ indices' = MapInsert(indices, path[p], buf[p])
  /\ pc' = [pc EXCEPT ![p] = "cp_config"]
  /\ lastSwitch' = NoRoot
  /\ UNCHANGED <<root_path, readers, config, configFile, disk, indexDir, now, faults,
                 path, q, buf, i, resp, hist, guardVars>>

\* config.add_path and config.save() under the config write lock; a failed
\* save is ignored.
ChangePathConfig(p) ==
  /\ pc[p] = "cp_config"
  /\ config' = add_path(config, path[p], Len(buf[p]), now)
  /\ \E out \in SaveOutcomes :
       /\ out # "written" => faults < MaxFaults
       /\ faults' = IF out = "written" THEN faults ELSE faults + 1
       /\ configFile' = Config_save(configFile, config', out)
  /\ pc' = [pc EXCEPT ![p] = "cp_status"]
  /\ lastSwitch' = NoRoot
  /\ UNCHANGED <<root_path, indices, readers, disk, indexDir, now,
                 path, q, buf, i, resp, hist, guardVars>>

ChangePathStatus(p) ==
  /\ pc[p] = "cp_status"
  /\ resp' = [resp EXCEPT ![p] =
                [NoResp EXCEPT !.op = "change_path",
                               !.total_files = Len(MapGet(indices, path[p])),
                               !.root_path = root_path]]
  /\ pc' = [pc EXCEPT ![p] = "done"]
  /\ lastSwitch' = IF \A o \in Procs \ {p} : pc[o] = "idle" THEN path[p]
                    ELSE NoRoot
  /\ UNCHANGED <<root_path, indices, readers, config, configFile, disk,
                 indexDir, now, faults, path, q, buf, i, hist, guardVars>>

\* ----------------------------------------------------------- purge_indices
\* fs::remove_dir_all(index_dir): an error when the directory does not exist
\* or cannot be removed.
PurgeIndices(p) ==
  /\ pc[p] = "idle"
  /\ \E removed \in BOOLEAN :
       /\ (indexDir /\ ~removed) => faults < MaxFaults
       /\ (~indexDir) => removed
       /\ faults' = IF indexDir /\ ~removed THEN faults + 1 ELSE faults
       /\ IF indexDir /\ removed
         THEN /\ disk' = remove_dir_all(disk)
              /\ indexDir' = FALSE
              /\ resp' = [resp EXCEPT ![p] =
                            [NoResp EXCEPT !.op = "purge",
                                           !.msg = "All indices purged successfully"]]
         ELSE /\ UNCHANGED <<disk, indexDir>>
              /\ resp' = [resp EXCEPT ![p] =
                            [NoResp EXCEPT !.op = "purge",
                                           !.msg = "Error purging indices"]]
  /\ pc' = [pc EXCEPT ![p] = "done"]
  /\ lastSwitch' = NoRoot
  /\ UNCHANGED <<root_path, indices, readers, config, configFile, now,
                 path, q, buf, i, hist, guardVars>>

\* -------------------------------------------------------- get_recent_paths
GetRecentPaths(p) ==
  /\ pc[p] = "idle"
  /\ resp' = [resp EXCEPT ![p] = [NoResp EXCEPT !.op = "recent", !.list = config]]
  /\ pc' = [pc EXCEPT ![p] = "done"]
  /\ UNCHANGED <<root_path, indices, readers, config, configFile, disk,
                 indexDir, now, faults, path, q, buf, i, lastSwitch, hist, guardVars>>

\* The response has been sent; the request slot is free again.
Return(p) ==
  /\ pc[p] = "done"
  /\ pc' = [pc EXCEPT ![p] = "idle"]
  /\ resp' = [resp EXCEPT ![p] = NoResp]
  /\ path' = [path EXCEPT ![p] = NoRoot]
  /\ q' = [q EXCEPT ![p] = <<>>]
  /\ buf' = [buf EXCEPT ![p] = <<>>]
  /\ i' = [i EXCEPT ![p] = 0]
  /\ UNCHANGED <<root_path, indices, readers, config, configFile, disk,
                 indexDir, now, faults, lastSwitch, hist, guardVars>>

\* The clock is not advanced in Spec: the handlers only ever write it into
\* last_indexed and last_updated, and nothing reads those back.
Next ==
  \/ \E p \in Procs : CreateIndexStart(p)
  \/ \E p \in Procs : CreateIndexWalk(p)
  \/ \E p \in Procs : CreateIndexStore(p)
  \/ \E p \in Procs : CreateIndexSave(p)
  \/ \E p \in Procs : SearchStart(p)
  \/ \E p \in Procs : SearchScan(p)
  \/ \E p \in Procs : SearchFinish(p)
  \/ \E p \in Procs : ChangePathStart(p)
  \/ \E p \in Procs : ChangePathInsert(p)
  \/ \E p \in Procs : ChangePathConfig(p)
  \/ \E p \in Procs : ChangePathStatus(p)
  \/ \E p \in Procs : PurgeIndices(p)
  \/ \E p \in Procs : GetRecentPaths(p)
  \/ \E p \in Procs : Return(p)

Spec == Init /\ [][Next]_vars

\* ------------------------------------------------------------------ SpecRS
\* The server under rebuilds and switches alone: no search, no purge, no read
\* of the registry.
NextRS ==
  \/ \E p \in Procs : CreateIndexStart(p)
  \/ \E p \in Procs : CreateIndexWalk(p)
  \/ \E p \in Procs : CreateIndexStore(p)
  \/ \E p \in Procs : CreateIndexSave(p)
  \/ \E p \in Procs : ChangePathStart(p)
  \/ \E p \in Procs : ChangePathInsert(p)
  \/ \E p \in Procs : ChangePathConfig(p)
  \/ \E p \in Procs : ChangePathStatus(p)
  \/ \E p \in Procs : Return(p)

SpecRS == Init /\ [][NextRS]_vars

\* ---------------------------------------------------------------- SpecLive
\* The steps of the handler process p is in.  The runtime goes on polling a
\* handler that can proceed, and the lock is granted to a writer once the
\* readers have gone: weak fairness of the steps of every handler.  Starting
\* a request and taking its response are up to the client.
Step(p) ==
  \/ CreateIndexWalk(p) \/ CreateIndexStore(p) \/ CreateIndexSave(p)
  \/ SearchScan(p) \/ SearchFinish(p)
  \/ ChangePathInsert(p) \/ ChangePathConfig(p) \/ ChangePathStatus(p)

SpecLive == Spec /\ \A p \in Procs : WF_vars(Step(p))

\* ================================================================= SpecReg
\* Config::add_path on its own: a registry that starts empty (no config.json,
\* or one that does not parse) and is given any paths and file counts.
RegPaths == 1..NumRegPaths

InitReg ==
  /\ root_path = StartRoot
  /\ disk = EmptyMap
  /\ indexDir = FALSE
  /\ indices = MapInsert(EmptyMap, StartRoot, <<>>)
  /\ readers = {}
  /\ faults = 0
  /\ now = 0
  /\ config = <<>>
  /\ configFile = NoConfigFile
  /\ IdleLocals
  /\ lastSwitch = NoRoot
  /\ hist = <<>>
  /\ req = <<>>
  /\ dl = NoDl

\* The paths that have been given to add_path so far.
Used == {hist[k] : k \in 1..Len(hist)}

\* Paths are numbered in the order of their first use: a call names a path
\* used before or the next new one (every run is such a run up to the names
\* of the paths).  Every call reads a later clock than the one before.
RegAddPath ==
  /\ Len(hist) < MaxAdds
  /\ now' = now + 1
  /\ \E p \in RegPaths, n \in 0..MaxCount :
       /\ p <= Cardinality(Used) + 1
       /\ config' = add_path(config, p, n, now')
       /\ hist' = Append(hist, p)
  /\ UNCHANGED <<serverVars, guardVars>>

NextReg == RegAddPath

SpecReg == InitReg /\ [][NextReg]_vars

\* ================================================================= SpecCfg
\* The registry and its file: add_path with Config::save, and a restart of
\* the program that loads the file.  Position "saved" of process 1:
\* Config::save has written the registry as it is in memory.

\* The paths in the registry and in its file.
KnownPaths ==
  PathsOf(config) \cup { configFile.text[k][1] : k \in 1..Len(configFile.text) }

\* A call names a known path or the first of the other ones (every run is such
\* a run up to the names of the paths).
Callable ==
  KnownPaths \cup { p \in RegPaths \ KnownPaths :
                      \A o \in RegPaths \ KnownPaths : p <= o }

\* What an earlier run or the environment left in place of config.json.
InitConfigFiles ==
  { NoConfigFile,
    [state |-> "unparsable", text |-> <<>>],
    [state |-> "unreadable", text |-> <<>>] }

InitCfg ==
  /\ root_path = StartRoot
  /\ disk = EmptyMap
  /\ indexDir = FALSE
  /\ indices = MapInsert(EmptyMap, StartRoot, <<>>)
  /\ readers = {}
  /\ configFile \in InitConfigFiles
  /\ faults = IF configFile = NoConfigFile THEN 0 ELSE 1
  /\ faults <= MaxFaults
  /\ now = 0
  /\ config = StartupConfig(configFile)
  /\ IdleLocals
  /\ lastSwitch = NoRoot
  /\ hist = <<>>
  /\ req = <<>>
  /\ dl = NoDl

\* add_path and Config::save under the config write lock, as change_path and
\* main call them; the result of the save is dropped.
CfgAddPath ==
  /\ now < MaxAdds
  /\ now' = now + 1
  /\ \E p \in Callable, n \in 0..MaxCount :
       config' = add_path(config, p, n, now')
  /\ \E out \in SaveOutcomes :
       /\ out # "written" => faults < MaxFaults
       /\ faults' = IF out = "written" THEN faults ELSE faults + 1
       /\ configFile' = Config_save(configFile, config', out)
       /\ pc' = [pc EXCEPT ![1] = IF out = "written" THEN "saved" ELSE "idle"]
       /\ resp' = [resp EXCEPT ![1] =
                     [NoResp EXCEPT !.op = "config_save",
                                    !.msg = IF out = "written" THEN "ok"
                                            ELSE "err"]]
  /\ UNCHANGED <<root_path, indices, readers, disk, indexDir,
                 path, q, buf, i, lastSwitch, hist, guardVars>>

\* The program starts again: the registry in memory is what main makes of
\* Config::load().
CfgRestart ==
  /\ config' = StartupConfig(configFile)
  /\ resp' = [resp EXCEPT ![1] =
                [NoResp EXCEPT !.op = "config_load",
                               !.list = config',
                               !.msg = IF Config_load(configFile).ok THEN "ok"
                                       ELSE "err"]]
  /\ UNCHANGED <<root_path, indices, readers, configFile, disk, indexDir, now,
                 faults, pc, path, q, buf, i, lastSwitch, hist, guardVars>>

NextCfg == CfgAddPath \/ CfgRestart

SpecCfg == InitCfg /\ [][NextCfg]_vars

\* =============================================================== SpecGuard
\* download_file on its own, for every request path of up to MaxReqLen
\* characters and every root.  A path is a sequence of components as
\* std::path::Path::components yields them on Unix.
ReqChars == {"/", ".", "a"}

Requests == UNION {[1..n -> ReqChars] : n \in 0..MaxReqLen}

RootDirC == [kind |-> "RootDir", name |-> <<>>]
CurDirC == [kind |-> "CurDir", name |-> <<>>]
ParentDirC == [kind |-> "ParentDir", name |-> <<>>]
Normal(name) == [kind |-> "Normal", name |-> name]

\* The absolute path of a root.
RootDirOf(r) == IF r = StartRoot THEN <<RootDirC, Normal(<<"a">>)>>
                ELSE <<RootDirC, Normal(<<".", "a">>)>>

\* The regular files of the file system.
GuardFiles ==
  { <<RootDirC, Normal(<<"a">>), Normal(<<"a">>)>>,
    <<RootDirC, Normal(<<"a">>), Normal(<<"a", "a">>), Normal(<<"a">>)>>,
    <<RootDirC, Normal(<<"a">>), Normal(<<".", "a">>)>>,
    <<RootDirC, Normal(<<".", "a">>), Normal(<<"a">>)>>,
    <<RootDirC, Normal(<<"a", "a">>)>>,
    <<RootDirC, Normal(<<".", "a">>), Normal(<<"a", ".">>)>> }

\* file_path.trim_start_matches('/')
RECURSIVE TrimStartSlash(_)
TrimStartSlash(s) ==
  IF s # <<>> /\ s[1] = "/" THEN TrimStartSlash(Tail(s)) ELSE s

\* The pieces of a string between its separators, empty pieces included.
RECURSIVE Split(_)
Split(s) ==
  IF s = <<>> THEN << <<>> >>
  ELSE LET rest == Split(Tail(s)) IN
         IF s[1] = "/" THEN << <<>> >> \o rest
         ELSE << <<s[1]>> \o rest[1] >> \o Tail(rest)

\* Path::components: a leading separator is RootDir; empty pieces and "."
\* are dropped, except a "." that starts a relative path, which is CurDir;
\* ".." is ParentDir; any other piece is Normal.
RECURSIVE ComponentsFrom(_, _, _)
ComponentsFrom(segs, k, hasRoot) ==
  IF k > Len(segs) THEN <<>>
  ELSE LET seg == segs[k]
           rest == ComponentsFrom(segs, k + 1, hasRoot)
       IN  CASE seg = <<>> -> rest
             [] seg = <<".">> -> IF k = 1 /\ ~hasRoot THEN <<CurDirC>> \o rest
                                 ELSE rest
             [] seg = <<".", ".">> -> <<ParentDirC>> \o rest
             [] OTHER -> <<Normal(seg)>> \o rest

Components(s) ==
  LET hasRoot == s # <<>> /\ s[1] = "/" IN
    (IF hasRoot THEN <<RootDirC>> ELSE <<>>)
      \o ComponentsFrom(Split(s), 1, hasRoot)

\* A check of the first component alone.
FirstIsParentDir(comps) == comps # <<>> /\ comps[1].kind = "ParentDir"

\* file_path.components().any(|c| matches!(c, Component::ParentDir))
HasParentDir(comps) == \E k \in 1..Len(comps) : comps[k].kind = "ParentDir"

\* root.join(file_path), as the components of the joined path: an absolute
\* file_path replaces the root; in a relative one a leading "." is no longer
\* at the start and is dropped.
Join(root, comps) ==
  IF comps # <<>> /\ comps[1].kind = "RootDir" THEN comps
  ELSE root \o SelectSeq(comps, LAMBDA c : c.kind # "CurDir")

\* Path::starts_with: component by component.
StartsWith(full, root) ==
  /\ Len(full) >= Len(root)
  /\ SubSeq(full, 1, Len(root)) = root

\* The directories of the file system: the proper prefixes of its files.
GuardDirs ==
  UNION { { SubSeq(f, 1, n) : n \in 1..(Len(f) - 1) } : f \in GuardFiles }

\* What the operating system finds when it follows the pieces segs[k..] of a
\* path from cur: a piece after a regular file fails, empty pieces and "."
\* stay in the directory, ".." goes to the parent, a name goes to the child.
RECURSIVE OsWalk(_, _, _)
OsWalk(cur, segs, k) ==
  IF k > Len(segs) THEN cur
  ELSE IF cur \notin GuardDirs THEN <<>>
  ELSE LET seg == segs[k] IN
       CASE seg \in {<<>>, <<".">>} -> OsWalk(cur, segs, k + 1)
         [] seg = <<".", ".">> ->
              OsWalk(IF Len(cur) > 1 THEN SubSeq(cur, 1, Len(cur) - 1)
                     ELSE cur, segs, k + 1)
         [] OTHER -> OsWalk(Append(cur, Normal(seg)), segs, k + 1)

\* full_path.exists(): directories pass as well.
path_exists(root, file_path) ==
  LET base == IF file_path # <<>> /\ file_path[1] = "/"
              THEN <<RootDirC>> ELSE root
  IN  OsWalk(base, Split(file_path), 1) \in GuardFiles \cup GuardDirs

\* full_path.is_file(), asked of the operating system with the text of the
\* joined path: the root, a separator and the text of file_path (an absolute
\* file_path alone).
is_file(root, file_path) ==
  LET base == IF file_path # <<>> /\ file_path[1] = "/"
              THEN <<RootDirC>> ELSE root
  IN  OsWalk(base, Split(file_path), 1) \in GuardFiles

\* A handler that joins the request to the root as it came and relies on the
\* ParentDir check alone.
download_file_unguarded(root, request, readOk) ==
  LET file_path == Components(request)
      full_path == Join(root, file_path)
  IN  IF HasParentDir(file_path)
        THEN [status |-> 403, body |-> "Invalid path", read |-> <<>>]
      ELSE IF ~is_file(root, request)
        THEN [status |-> 404, body |-> "Not a file", read |-> <<>>]
      ELSE IF readOk
        THEN [status |-> 200, body |-> "contents", read |-> full_path]
      ELSE [status |-> 404, body |-> "Error reading file", read |-> <<>>]

\* download_file: the status and body of the response, and the file that was
\* read (none: <<>>).  readOk: tokio::fs::read succeeds.
download_file(root, request, readOk) ==
  LET trimmed == TrimStartSlash(request)
      file_path == Components(trimmed)
      full_path == Join(root, file_path)
  IN  IF HasParentDir(file_path)
        THEN [status |-> 403, body |-> "Invalid path", read |-> <<>>]
      ELSE IF ~StartsWith(full_path, root)
        THEN [status |-> 404, body |-> "File path outside root directory",
              read |-> <<>>]
      ELSE IF ~is_file(root, trimmed)
        THEN [status |-> 404, body |-> "Not a file", read |-> <<>>]
      ELSE IF readOk
        THEN [status |-> 200, body |-> "contents", read |-> full_path]
      ELSE [status |-> 404, body |-> "Error reading file", read |-> <<>>]

InitGuard ==
  /\ root_path \in Roots
  /\ disk = EmptyMap
  /\ indexDir = FALSE
  /\ indices = MapInsert(EmptyMap, root_path, <<>>)
  /\ readers = {}
  /\ faults = 0
  /\ now = 0
  /\ config = <<>>
  /\ configFile = NoConfigFile
  /\ IdleLocals
  /\ lastSwitch = NoRoot
  /\ hist = <<>>
  /\ req \in Requests
  /\ dl = NoDl

Download ==
  /\ dl = NoDl
  /\ \E readOk \in BOOLEAN :
       dl' = download_file(RootDirOf(root_path), req, readOk)
  /\ UNCHANGED <<serverVars, config, now, hist, req>>

NextGuard == Download

SpecGuard == InitGuard /\ [][NextGuard]_vars

\* ============================================================== SpecSearch
\* search as a function of the index and the query: one handler runs over an
\* index drawn from the lists of different paths and a query drawn from the
\* strings of both cases.
MaxIndexLen == 3
MaxQueryLen == 2

SearchPaths == { FileNames[k] : k \in 1..Len(FileNames) }

SearchIndexes ==
  UNION { { [k \in 1..n |-> IndexEntry(f[k])] :
              f \in { g \in [1..n -> SearchPaths] :
                        \A a, b \in 1..n : a # b => g[a] # g[b] } } :
          n \in 0..MaxIndexLen }

SearchChars == {"a", "b", "A", "B"}

SearchQueries == UNION { [1..n -> SearchChars] : n \in 0..MaxQueryLen }

\* The handler has taken the read lock and is about to iterate.
InitSearch ==
  /\ root_path = StartRoot
  /\ \E index \in SearchIndexes :
       indices = MapInsert(EmptyMap, StartRoot, index)
  /\ disk = EmptyMap
  /\ indexDir = FALSE
  /\ readers = {1}
  /\ faults = 0
  /\ now = 0
  /\ config = <<>>
  /\ configFile = NoConfigFile
  /\ pc = [p \in Procs |-> IF p = 1 THEN "s_scan" ELSE "idle"]
  /\ path = [p \in Procs |-> NoRoot]
  /\ \E query \in SearchQueries :
       q = [p \in Procs |-> IF p = 1 THEN query ELSE <<>>]
  /\ buf = [p \in Procs |-> <<>>]
  /\ i = [p \in Procs |-> 0]
  /\ resp = [p \in Procs |-> NoResp]
  /\ lastSwitch = NoRoot
  /\ hist = <<>>
  /\ req = <<>>
  /\ dl = NoDl

NextSearch == SearchScan(1) \/ SearchFinish(1)

SpecSearch == InitSearch /\ [][NextSearch]_vars

\* ======================================================== claims under Spec

\* filter_map of search over a list of entries, as a whole.
RECURSIVE Matches(_, _)
Matches(es, pat) ==
  IF es = <<>> THEN <<>>
  ELSE LET m == fuzzy_match(es[Len(es)].path, pat)
           front == Matches(SubSeq(es, 1, Len(es) - 1), pat)
       IN  IF m.matched
             THEN Append(front, [score |-> m.score, entry |-> es[Len(es)]])
             ELSE front

Rebuilding == {p \in Procs : pc[p] \in {"ci_walk", "ci_store", "ci_save"}}

\* C1: after a switch of the Active Root to a root R that has a readable
\* snapshot, with no rebuild since, search("") returns exactly the entries of
\* R's snapshot.
C1_SearchReflectsSnapshot ==
  \A p \in Procs :
    ( /\ pc[p] = "done"
      /\ resp[p].op = "search"
      /\ q[p] = <<>>
      /\ lastSwitch # NoRoot
      /\ lastSwitch \in DOMAIN disk
      /\ disk[lastSwitch].ok )
    => resp[p].files = disk[lastSwitch].entries

\* C2: once change_path(p) has returned, and until another switch, the Active
\* Root is p, and the status the switch returned names p as root.
C2_ActiveRootIsSwitched ==
  /\ lastSwitch # NoRoot => root_path = lastSwitch
  /\ \A p \in Procs :
       (pc[p] = "done" /\ resp[p].op = "change_path")
         => resp[p].root_path = path[p]

\* C3: a switch to a root whose Index is already held in memory leaves that
\* Index unchanged (the snapshot is loaded only when none is held).
C3_SwitchKeepsHeldIndex ==
  [][ \A p \in Procs :
        ( /\ pc[p] = "cp_insert"
          /\ pc'[p] = "cp_config"
          /\ path[p] \in DOMAIN indices )
        => /\ path[p] \in DOMAIN indices'
           /\ indices'[path[p]] = indices[path[p]] ]_vars

C5_OneRebuildPerRoot == Cardinality(Rebuilding) <= 1

\* C6: a rebuild stores its Index in one step, after the whole tree has been
\* walked, and no Index changes under a running search: at every point of its
\* scan a search has collected exactly the matches of the entries it has
\* passed in the Index as it is now, and it answers with the matches of that
\* whole Index.
C6_ScanConsistent ==
  \A p \in Procs :
    pc[p] = "s_scan" =>
      LET index == MapGet(indices, root_path) IN
        /\ i[p] <= Len(index)
        /\ buf[p] = Matches(SubSeq(index, 1, i[p]), q[p])

C6_StoreAfterWalk ==
  \A p \in Procs :
    (pc[p] \in {"ci_walk", "ci_store"} /\ indices' # indices /\ pc'[p] # pc[p])
    => /\ i[p] = Len(TreeOf(root_path))
       /\ indices' = MapInsert(indices, root_path, buf[p])

C6_AnswerWholeIndex ==
  \A p \in Procs :
    (pc[p] = "s_scan" /\ pc'[p] = "done")
    => resp'[p].files =
         EntriesOf(SortDesc(Matches(MapGet(indices, root_path), q[p])))

C6_AtomicReplace ==
  /\ []C6_ScanConsistent
  /\ [][C6_StoreAfterWalk /\ C6_AnswerWholeIndex]_vars

\* A search is in the middle of its scan while a finished walk waits to store
\* a different Index for the same root.
C6_Witness ==
  \E p, r \in Procs :
    /\ pc[p] = "s_scan"
    /\ i[p] >= 1
    /\ i[p] < Len(MapGet(indices, root_path))
    /\ pc[r] = "ci_store"
    /\ buf[r] # MapGet(indices, root_path)

\* Process p takes a step from position a to position b.
Moves(p, a, b) == pc[p] = a /\ pc'[p] = b

\* C17: when purge_indices answers that all indices are purged, no snapshot
\* is left in storage, so that loading any root's snapshot gives the empty
\* list; the indices in memory, the Active Root and the registry are what
\* they were.
C17_PurgeClearsStorage ==
  [][ \A p \in Procs :
        ( /\ Moves(p, "idle", "done")
          /\ resp'[p].op = "purge"
          /\ resp'[p].msg = "All indices purged successfully" )
        => /\ \A r \in Roots : r \notin DOMAIN disk' /\ load_index(disk', r) = <<>>
           /\ indices' = indices
           /\ root_path' = root_path
           /\ config' = config ]_vars

\* A purge has succeeded and has left a non-empty index in memory and an
\* entry in the registry.
C17_Witness ==
  \E p \in Procs :
    /\ pc[p] = "done"
    /\ resp[p].msg = "All indices purged successfully"
    /\ DOMAIN disk = {}
    /\ MapGet(indices, root_path) # <<>>
    /\ config # <<>>

\* C18: a failed snapshot save at the end of a rebuild leaves the index map
\* as the rebuild stored it and the rebuild answers with its status; a failed
\* registry save in a switch leaves the registry updated in memory, and the
\* switch goes on to answer with its status.
C18_SaveFailureIgnored ==
  [][ \A p \in Procs :
        /\ ( Moves(p, "ci_save", "done") /\ faults' > faults )
           => /\ resp'[p].op = "create_index"
              /\ resp'[p].total_files = Len(buf[p])
              /\ indices' = indices
        /\ ( Moves(p, "cp_config", "cp_status") /\ faults' > faults )
           => /\ config' = add_path(config, path[p], Len(buf[p]), now)
              /\ indices' = indices
        /\ Moves(p, "cp_status", "done")
           => /\ resp'[p].op = "change_path"
              /\ resp'[p].total_files = Len(MapGet(indices, path[p]))
        /\ pc[p] = "ci_save" => pc'[p] \in {"ci_save", "done"}
        /\ pc[p] = "cp_config" => pc'[p] \in {"cp_config", "cp_status"}
        /\ pc[p] = "cp_status" => pc'[p] \in {"cp_status", "done"} ]_vars

\* A rebuild has answered with its status and its index is in memory, though
\* its save failed and storage holds nothing.
C18_Witness ==
  \E p \in Procs :
    /\ pc[p] = "done"
    /\ resp[p].op = "create_index"
    /\ resp[p].total_files = NumFiles
    /\ Len(MapGet(indices, root_path)) = NumFiles
    /\ faults = MaxFaults
    /\ DOMAIN disk = {}
    /\ ~indexDir

\* C19: a snapshot that cannot be read or parsed counts as no index.  At
\* startup the start directory then has the empty index; a switch to such a
\* root loads the empty list, stores it as the root's index and answers with
\* its status.
C19_UnreadableIsEmpty ==
  /\ (StartRoot \in DOMAIN disk /\ ~disk[StartRoot].ok)
       => MapGet(indices, StartRoot) = <<>>
  /\ [][ \A p \in Procs :
           /\ ( /\ Moves(p, "idle", "cp_insert")
                /\ path'[p] \in DOMAIN disk
                /\ ~disk[path'[p]].ok )
              => buf'[p] = <<>>
           /\ Moves(p, "cp_insert", "cp_config")
              => indices'[path[p]] = buf[p]
           /\ Moves(p, "cp_status", "done")
              => resp'[p].op = "change_path" ]_vars

\* A switch to a root whose snapshot is unreadable has answered, and the root
\* has the empty index.
C19_Witness ==
  \E p \in Procs :
    /\ pc[p] = "done"
    /\ resp[p].op = "change_path"
    /\ path[p] \in DOMAIN disk
    /\ ~disk[path[p]].ok
    /\ MapGet(indices, path[p]) = <<>>
    /\ resp[p].total_files = 0

\* C21: when the walk of a rebuild is over, every regular file under the root
\* has an entry in the list the walk built, the files whose metadata could
\* not be read included.
C21_UnreadableFilesKept ==
  \A p \in Procs :
    pc[p] \in {"ci_store", "ci_save"}
      => \A k \in 1..Len(TreeOf(root_path)) :
           \E j \in 1..Len(buf[p]) : buf[p][j].path = TreeOf(root_path)[k]

\* C22: when change_path answers, its path is in the registry, and the file
\* count of that registry entry is the file count of the status it answers
\* with.
C22_RegistryCountIsStatusCount ==
  [][ \A p \in Procs :
        Moves(p, "cp_status", "done")
          => \E k \in 1..Len(config') :
               /\ config'[k].path = path[p]
               /\ config'[k].total_files = resp'[p].total_files ]_vars

C23_WitnessWalk ==
  \E p, o \in Procs :
    /\ pc[p] = "cp_insert"
    /\ pc[o] = "ci_walk"
    /\ ENABLED ChangePathInsert(p)

\* C24: once every rebuild and every switch has completed, and no read or
\* write of a file has failed, the index in memory of every root is the
\* snapshot of that root in storage.
C24_MemoryMatchesDisk ==
  ( /\ \A p \in Procs : pc[p] \in {"idle", "done"}
    /\ faults = 0 )
  => \A r \in DOMAIN indices : indices[r] = load_index(disk, r)

\* Process p takes a step of a rebuild.
RebuildStep(p) ==
  /\ pc[p] \in {"ci_walk", "ci_store", "ci_save"}
       \/ pc'[p] \in {"ci_walk", "ci_store", "ci_save"}
  /\ pc'[p] # pc[p] \/ i'[p] # i[p]

\* C25: a step of a rebuild leaves the Active Root and the registry as they
\* are, and the index in memory and the snapshot of every root but the
\* Active Root; the store of the rebuild puts the list of the walk, whole, in
\* the place of the old index, and no other step touches the index map.
C25_RebuildFrame ==
  [][ \A p \in Procs :
        RebuildStep(p)
          => /\ root_path' = root_path
             /\ config' = config
             /\ \A r \in Roots \ {root_path} :
                  /\ (r \in DOMAIN indices') = (r \in DOMAIN indices)
                  /\ MapGet(indices', r) = MapGet(indices, r)
                  /\ (r \in DOMAIN disk') = (r \in DOMAIN disk)
                  /\ r \in DOMAIN disk => disk'[r] = disk[r]
             /\ IF Moves(p, "ci_store", "ci_save")
                  THEN indices'[root_path] = buf[p]
                  ELSE indices' = indices ]_vars

\* A rebuild has completed, its list is the index of the Active Root and its
\* snapshot, while another root has its index in memory and its snapshot in
\* storage.
C25_Witness ==
  \E p \in Procs, r \in Roots :
    /\ pc[p] = "done"
    /\ resp[p].op = "create_index"
    /\ r # root_path
    /\ r \in DOMAIN indices /\ indices[r] # <<>>
    /\ r \in DOMAIN disk /\ disk[r] = OldSnapshot(r)
    /\ indices[root_path] = buf[p]
    /\ Len(buf[p]) = NumFiles
    /\ disk[root_path] = Snapshot(buf[p])

\* C26: a purge of a storage that holds no snapshot, where nothing goes
\* wrong in the file system, answers with the confirmation of success and
\* leaves the storage empty.
C26_PurgeIdempotent ==
  [][ \A p \in Procs :
        ( /\ Moves(p, "idle", "done")
          /\ resp'[p].op = "purge"
          /\ DOMAIN disk = {}
          /\ faults' = faults )
        => /\ resp'[p].msg = "All indices purged successfully"
           /\ DOMAIN disk' = {} ]_vars

\* ===================================================== claims under SpecReg

PathSeq(c) == [k \in 1..Len(c) |-> c[k].path]

\* The registry without the entry of path p.
Without(c, p) == SelectSeq(c, LAMBDA e : e.path # p)

Min(a, b) == IF a <= b THEN a ELSE b

\* C7: the registry never holds more than MaxRecent entries, and no two of
\* its entries have the same path.
C7_RegistryInvariant ==
  /\ Len(config) <= MaxRecent
  /\ \A j, k \in 1..Len(config) : j # k => config[j].path # config[k].path

\* More paths than the registry holds have been added, and a path has been
\* added again.
C7_Witness ==
  /\ Cardinality(Used) > MaxRecent
  /\ Len(hist) > Cardinality(Used)
  /\ Len(config) = MaxRecent

\* C8: add_path of a path that is in the registry puts its entry at the front,
\* with the new timestamp, and keeps the order of the other entries.
C8_TouchMovesToFront ==
  [][ (hist' # hist /\ hist'[Len(hist')] \in PathsOf(config))
      => LET p == hist'[Len(hist')] IN
           /\ config'[1].path = p
           /\ config'[1].last_indexed = now'
           /\ Without(config', p) = Without(config, p) ]_vars

\* C9: as long as every path added was a new one, the registry holds the last
\* MaxRecent of them (all of them, up to MaxRecent), the most recent first.
C9_LastFiveMostRecentFirst ==
  Cardinality(Used) = Len(hist)
    => PathSeq(config) =
         [k \in 1..Min(Len(hist), MaxRecent) |-> hist[Len(hist) - k + 1]]

\* More than MaxRecent paths, all different, have been added.
C9_Witness ==
  /\ Len(hist) > MaxRecent
  /\ Cardinality(Used) = Len(hist)
  /\ hist[1] \notin PathsOf(config)

\* =================================================== claims under SpecGuard

\* Some piece of the request between separators is "..".
HasParentSegment(s) ==
  \E k \in 1..(Len(s) - 1) :
    /\ s[k] = "." /\ s[k + 1] = "."
    /\ (k = 1 \/ s[k - 1] = "/")
    /\ (k + 1 = Len(s) \/ s[k + 2] = "/")

\* C10: a request path with a ".." segment is answered with a rejection, and
\* no file is read for it.
C10_TraversalRejected ==
  (dl # NoDl /\ HasParentSegment(req))
    => /\ dl.status = 403
       /\ dl.read = <<>>

\* A request whose ".." comes after another segment has been rejected.
C10_Witness ==
  /\ dl.status = 403
  /\ HasParentSegment(req)
  /\ req[1] = "a"

\* C11: whatever the request, with leading separators or without, a file that
\* download_file reads lies under the root: its path starts with the root's
\* path, component by component.
C11_ReadUnderRoot ==
  dl.read # <<>>
    => /\ Len(dl.read) > Len(RootDirOf(root_path))
       /\ \A k \in 1..Len(RootDirOf(root_path)) :
            dl.read[k] = RootDirOf(root_path)[k]

\* A request that starts with a separator has been read.
C11_Witness ==
  /\ req # <<>> /\ req[1] = "/"
  /\ dl.status = 200
  /\ dl.read \in GuardFiles

\* The request is a relative path of plain names: it neither starts nor ends
\* with a separator and has no empty piece, no "." and no "..".
Canonical(s) ==
  /\ s # <<>>
  /\ s[1] # "/" /\ s[Len(s)] # "/"
  /\ \A k \in 1..Len(Split(s)) :
       Split(s)[k] \notin {<<>>, <<".">>, <<".", ".">>}

\* R/r for a canonical r: the root followed by the names of r.
Under(root, s) == root \o [k \in 1..Len(Split(s)) |-> Normal(Split(s)[k])]

\* C12: for a relative request r with no ".." the answer is definite, 200 or
\* 404.  When r is made of plain names and R/r is a regular file, the file
\* read is exactly R/r (or the read itself failed and the answer is 404);
\* when R/r is a directory or does not exist the answer is 404 and nothing
\* is read.
C12_ResolveOrNotFound ==
  (dl # NoDl /\ ~HasParentSegment(req))
    => /\ dl.status \in {200, 404}
       /\ (dl.status = 200) = (dl.read # <<>>)
       /\ Canonical(req) =>
            LET target == Under(RootDirOf(root_path), req) IN
              IF target \in GuardFiles
              THEN \/ dl.status = 200 /\ dl.read = target
                   \/ dl.status = 404 /\ dl.body = "Error reading file"
              ELSE dl.status = 404 /\ dl.body = "Not a file"

\* A file two levels under the root has been resolved and read.
C12_Witness ==
  /\ Canonical(req)
  /\ Len(Split(req)) = 2
  /\ dl.status = 200
  /\ dl.read = Under(RootDirOf(root_path), req)

\* A directory under the root has been asked for and refused.
C12_WitnessDir ==
  /\ Canonical(req)
  /\ Under(RootDirOf(root_path), req) \in GuardDirs
  /\ dl.status = 404

\* ================================================== claims under SpecSearch

\* The characters of pat occur in s in this order, the case of letters
\* ignored.
SubseqIgnoreCase(pat, s) ==
  \E f \in [1..Len(pat) -> 1..Len(s)] :
    /\ \A a, b \in 1..Len(pat) : a < b => f[a] < f[b]
    /\ \A k \in 1..Len(pat) : Lower(pat[k]) = Lower(s[f[k]])

\* The handler has answered.
Answered == pc[1] = "done" /\ resp[1].op = "search"

ActiveIndex == MapGet(indices, root_path)

Returned(e) == \E k \in 1..Len(resp[1].files) : resp[1].files[k] = e

\* C13: every entry search returns is an entry of the active root's index,
\* and the characters of the query occur in its path in order, the case of
\* letters ignored.
C13_SearchSound ==
  Answered =>
    \A k \in 1..Len(resp[1].files) :
      /\ \E j \in 1..Len(ActiveIndex) : ActiveIndex[j] = resp[1].files[k]
      /\ SubseqIgnoreCase(q[1], resp[1].files[k].path)

\* A query has been answered with some entries of the index and not others.
C13_Witness ==
  /\ Answered
  /\ q[1] # <<>>
  /\ Len(resp[1].files) > 0
  /\ Len(resp[1].files) < Len(ActiveIndex)

\* C14: an entry of the active root's index is returned if and only if the
\* characters of the query occur in its path in order, the case of letters
\* ignored, whatever the case of the letters of the query.
C14_SearchComplete ==
  Answered =>
    \A j \in 1..Len(ActiveIndex) :
      Returned(ActiveIndex[j]) <=> SubseqIgnoreCase(q[1], ActiveIndex[j].path)

\* C15: the empty query returns the whole index in the order of the index.
C15_EmptyQueryReturnsAll ==
  (Answered /\ q[1] = <<>>) => resp[1].files = ActiveIndex

\* The empty query has been answered over an index of several entries.
C15_Witness ==
  /\ Answered
  /\ q[1] = <<>>
  /\ Len(ActiveIndex) = MaxIndexLen
  /\ Len(resp[1].files) = MaxIndexLen

ScoreOf(e) == fuzzy_match(e.path, q[1]).score

PosOf(e) == CHOOSE j \in 1..Len(ActiveIndex) : ActiveIndex[j] = e

\* C16: the entries are returned by descending score, and entries of the
\* same score in the order they have in the index.
C16_StableByScore ==
  Answered =>
    \A a, b \in 1..Len(resp[1].files) :
      a < b =>
        LET x == resp[1].files[a]
            y == resp[1].files[b]
        IN  /\ ScoreOf(x) >= ScoreOf(y)
            /\ ScoreOf(x) = ScoreOf(y) => PosOf(x) < PosOf(y)

\* Three entries have been returned: the best one stood behind another in
\* the index, and the other two have the same score.
C16_Witness ==
  /\ Answered
  /\ Len(resp[1].files) = 3
  /\ ScoreOf(resp[1].files[1]) > ScoreOf(resp[1].files[2])
  /\ ScoreOf(resp[1].files[2]) = ScoreOf(resp[1].files[3])
  /\ PosOf(resp[1].files[1]) > PosOf(resp[1].files[2])

\* ===================================================== claims under SpecCfg

\* The program has just started again.
Restarted == resp'[1].op = "config_load" /\ resp[1].op # "config_load"

C20_WitnessCorrupt ==
  /\ resp[1].op = "config_load"
  /\ configFile.state = "unparsable"
  /\ now > 0
  /\ config = <<>>

====
